---- MODULE Spec2Model ----
(***************************************************************************)
(* Model of attendance_tracker_app.py: the two projection functions        *)
(* classes_to_attend and classes_can_leave, the attendance table kept by   *)
(* smart_parse_pasted_data / recalculate_attendance, and the script's      *)
(* aggregate and subject target sections.                                  *)
(*                                                                         *)
(* Spec     : calls of the two functions with arbitrary integer arguments  *)
(*            (the subject section calls both on every run, and the user   *)
(*            may change the target between runs).                         *)
(* WideSpec : calls of classes_can_leave with counts large enough for the  *)
(*            float rounding of (present / (total + leave)) * 100.         *)
(* AppSpec  : runs of the script from the pasted text to its last line.    *)
(***************************************************************************)
EXTENDS Integers, Sequences, FiniteSets, TLC

VARIABLES
    df,             \* the DataFrame: a sequence of rows, <<>> while df is None
    pc,             \* position of the script / of the function being run
    fn,             \* the function last called: "none", "attend", "leave"
    present,        \* argument present of the current call
    total,          \* argument total of the current call
    target,         \* argument target of the current call (the Target % widget)
    leave,          \* local variable leave of classes_can_leave
    ret,            \* where the script continues after classes_can_leave
    need,           \* value returned by classes_to_attend
    leaveShown,     \* value returned by classes_can_leave
    outcome,        \* how the last call ended: "none", "value", "ZeroDivisionError"
    prev,           \* the previous classes_to_attend call on the same row
    agg,            \* total_present, total_absent, total_classes of the script
    shown           \* the aggregate section's message: "none", "warning", "success"

vars == <<df, pc, fn, present, total, target, leave, ret, need, leaveShown,
          outcome, prev, agg, shown>>

---------------------------------------------------------------------------
(* Bounds of the model *)

MaxPresent == 3
MaxTotal == 4
NegMargin == 1
OutOfRange == 1
MaxWidePresent == 29
MaxWideTotal == 30

(* Program constants: the Target % widget, st.number_input("Target %", 0, 100, 75) *)
TargetMin == 0
TargetMax == 100
TargetDefault == 75

Abs(n) == IF n < 0 THEN -n ELSE n

Max(a, b) == IF a >= b THEN a ELSE b

---------------------------------------------------------------------------
(* Python float arithmetic of (p / q) * 100.                               *)
(* For integers p, q, T with 100 * p = T * q the quotient p / q is the     *)
(* double nearest T / 100, and multiplying it by 100 rounds again: for the *)
(* targets of RoundsBelow the product is one ulp below T, for those of     *)
(* RoundsAbove one ulp above, and for every other T with |T| <= 105 it is  *)
(* exactly T.  When 100 * p # T * q the two differ by at least 1 / |q|,    *)
(* far more than the rounding error, and the float comparison is the exact *)
(* one.                                                                    *)

RoundsBelow == {29, 57, 58}

RoundsAbove == {7, 14, 28, 55, 56}

\* sign of float((T / 100) * 100) - T
Mul100Err(T) ==
    IF Abs(T) \in RoundsBelow THEN (IF T > 0 THEN -1 ELSE 1)
    ELSE IF Abs(T) \in RoundsAbove THEN (IF T > 0 THEN 1 ELSE -1)
    ELSE 0

\* (p / q) * 100 >= T, for q # 0
PctAtLeast(p, q, T) ==
    LET lhs == IF q > 0 THEN 100 * p ELSE -(100 * p)
        rhs == IF q > 0 THEN T * q ELSE -(T * q)
    IN  IF lhs = rhs THEN Mul100Err(T) >= 0 ELSE lhs > rhs

---------------------------------------------------------------------------
(* classes_to_attend *)

\* math.ceil of the rational num / den, den > 0
CeilTrunc(num, den) == num \div den

Ceil(num, den) == -((-num) \div den)

\* sp.solve((present + x) / (total + x) - target / 100, x): the list of
\* solutions, each a rational [num, den] with den > 0.  solve recasts the
\* float target / 100 as the rational target / 100.  With present = total
\* the quotient is the constant 1 and the expression does not depend on x;
\* with target = 100 the equation is (present - total) / (total + x) = 0.
\* Both give the empty list.  Otherwise the equation is linear, with the
\* root (total * target - 100 * present) / (100 - target).
Solve(p, t, T) ==
    IF p = t \/ T = 100 THEN <<>>
    ELSE IF T < 100
         THEN << [num |-> t * T - 100 * p, den |-> 100 - T] >>
         ELSE << [num |-> 100 * p - t * T, den |-> T - 100] >>

\* return max(0, math.ceil(sol[0])) if sol else 0
ClassesToAttend(p, t, T) ==
    LET sol == Solve(p, t, T)
    IN  IF sol # <<>> THEN Max(0, Ceil(sol[1].num, sol[1].den)) ELSE 0

---------------------------------------------------------------------------
(* classes_can_leave *)

\* the search gives up growing leave here: Python integers are unbounded
LeaveCap(p) == 100 * Abs(p) + 2

LeaveResultOffByOne(l) == Max(0, l)

\* return max(0, leave - 1)
LeaveResult(l) == Max(0, l - 1)

---------------------------------------------------------------------------
(* Calls of the two functions *)

NoPrev == [target |-> -1000, need |-> -1]

Counts(hi) == (0 - NegMargin)..hi

Targets == (TargetMin - OutOfRange)..(TargetMax + OutOfRange)

TypeOK ==
    /\ pc \in {"idle", "leave_loop", "done", "input", "edit", "aggregate",
               "target", "subject", "report", "end", "crashed"}
    /\ fn \in {"none", "attend", "leave"}
    /\ outcome \in {"none", "value", "ZeroDivisionError"}
    /\ leave >= 0

InitCall(P, T, Tg) ==
    /\ df = <<>>
    /\ pc = "idle"
    /\ fn = "none"
    /\ present \in P
    /\ total \in T
    /\ target \in Tg
    /\ leave = 0
    /\ ret = "done"
    /\ need = 0
    /\ leaveShown = 0
    /\ outcome = "none"
    /\ prev = NoPrev
    /\ agg = [present |-> 0, absent |-> 0, classes |-> 0]
    /\ shown = "none"

Init == InitCall(Counts(MaxPresent), Counts(MaxTotal), Targets)

\* need = classes_to_attend(present, total, target)
CallAttend ==
    /\ pc = "idle"
    /\ fn' = "attend"
    /\ need' = ClassesToAttend(present, total, target)
    /\ outcome' = "value"
    /\ pc' = "done"
    /\ UNCHANGED <<df, present, total, target, leave, ret, leaveShown, prev,
                   agg, shown>>

\* the same row asked again after the user changed the Target % widget
Retarget ==
    /\ pc = "done"
    /\ fn = "attend"
    /\ prev = NoPrev
    /\ \E T \in Targets :
        /\ T # target
        /\ prev' = [target |-> target, need |-> need]
        /\ target' = T
        /\ need' = ClassesToAttend(present, total, T)
    /\ outcome' = "value"
    /\ UNCHANGED <<df, pc, fn, present, total, leave, ret, leaveShown, agg,
                   shown>>

\* entry of classes_can_leave: if total == 0: return 0; leave = 0
EnterLeave(p, t, T, back) ==
    /\ fn' = "leave"
    /\ present' = p
    /\ total' = t
    /\ target' = T
    /\ IF t = 0
       THEN /\ leaveShown' = 0
            /\ outcome' = "value"
            /\ pc' = back
            /\ UNCHANGED <<leave, ret>>
       ELSE /\ leave' = 0
            /\ ret' = back
            /\ pc' = "leave_loop"
            /\ UNCHANGED <<leaveShown, outcome>>

CallLeave ==
    /\ pc = "idle"
    /\ EnterLeave(present, total, target, "done")
    /\ UNCHANGED <<df, need, prev, agg, shown>>

\* while (present / (total + leave)) * 100 >= target: leave += 1
LeaveLoop ==
    /\ pc = "leave_loop"
    /\ total + leave # 0
    /\ PctAtLeast(present, total + leave, target)
    /\ leave < LeaveCap(present)
    /\ leave' = leave + 1
    /\ UNCHANGED <<df, pc, fn, present, total, target, ret, need, leaveShown,
                   outcome, prev, agg, shown>>

\* the division raises when total + leave is 0
LeaveRaise ==
    /\ pc = "leave_loop"
    /\ total + leave = 0
    /\ outcome' = "ZeroDivisionError"
    /\ pc' = IF ret = "done" THEN "done" ELSE "crashed"
    /\ UNCHANGED <<df, fn, present, total, target, leave, ret, need,
                   leaveShown, prev, agg, shown>>

\* the loop condition is false: return max(0, leave - 1)
LeaveReturn ==
    /\ pc = "leave_loop"
    /\ total + leave # 0
    /\ ~PctAtLeast(present, total + leave, target)
    /\ leaveShown' = LeaveResult(leave)
    /\ outcome' = "value"
    /\ pc' = ret
    /\ UNCHANGED <<df, fn, present, total, target, leave, ret, need, prev,
                   agg, shown>>

Next ==
    \/ CallAttend
    \/ Retarget
    \/ CallLeave
    \/ LeaveLoop
    \/ LeaveRaise
    \/ LeaveReturn

Spec == Init /\ [][Next]_vars

---------------------------------------------------------------------------
(* Calls of classes_can_leave with larger counts *)

WideInit ==
    InitCall(0..MaxWidePresent, 0..MaxWideTotal, (TargetMin + 1)..TargetMax)

WideNext ==
    \/ CallLeave
    \/ LeaveLoop
    \/ LeaveReturn

WideSpec == WideInit /\ [][WideNext]_vars

---------------------------------------------------------------------------
(* The attendance table *)

\* Attendance%: (Effective Present / Total * 100) if Total else 0, kept as
\* the fraction num / den with den > 0
AttendancePct(ep, tot) ==
    IF tot = 0 THEN [num |-> 0, den |-> 1]
    ELSE IF tot > 0 THEN [num |-> 100 * ep, den |-> tot]
    ELSE [num |-> -(100 * ep), den |-> -tot]

\* Status: green if Attendance% >= 75 else red
StatusOf(ep, tot) ==
    IF tot # 0 /\ PctAtLeast(ep, tot, 75) THEN "green" ELSE "red"

RecalcRowTotalWithoutOD(r) ==
    LET ep == r.Present + r.Makeup + r.OD
        tot == r.Present + r.Absent + r.Makeup
    IN  [Subject |-> r.Subject, Present |-> r.Present, Absent |-> r.Absent,
         Makeup |-> r.Makeup, OD |-> r.OD, EffectivePresent |-> ep,
         Total |-> tot, AttendancePct |-> AttendancePct(ep, tot),
         Status |-> StatusOf(ep, tot)]

\* the columns recalculate_attendance derives for one row
RecalcRow(r) ==
    LET ep == r.Present + r.Makeup + r.OD
        tot == r.Present + r.Absent + r.Makeup + r.OD
    IN  [Subject |-> r.Subject, Present |-> r.Present, Absent |-> r.Absent,
         Makeup |-> r.Makeup, OD |-> r.OD, EffectivePresent |-> ep,
         Total |-> tot, AttendancePct |-> AttendancePct(ep, tot),
         Status |-> StatusOf(ep, tot)]

PctLeq(a, b) == a.num * b.den <= b.num * a.den

\* the orders of rows that df.sort_values("Attendance%") may return: the
\* default sort is not stable, rows of equal Attendance% come in any order
SortValues(rows) ==
    LET n == Len(rows)
        Perms == { f \in [1..n -> 1..n] : \A i, j \in 1..n : i # j => f[i] # f[j] }
    IN  { [i \in 1..n |-> rows[f[i]]] : f \in
            { g \in Perms : \A i \in 1..(n - 1) :
                PctLeq(rows[g[i]].AttendancePct, rows[g[i + 1]].AttendancePct) } }

\* recalculate_attendance(df)
RecalculateAttendance(rows) ==
    SortValues([i \in 1..Len(rows) |-> RecalcRow(rows[i])])

---------------------------------------------------------------------------
(* smart_parse_pasted_data *)

MaxCount == 1
MaxExtra == 1
MaxLines == 2

\* a part of a line: the text of an integer, a word, or a word holding
\* "present" or "absent"
IntParts == { [kind |-> "int", val |-> n] : n \in Counts(MaxCount) }

Word(k) == [kind |-> "word", val |-> k]

Subjects == { Word(1), Word(2) }

HeaderLine == << [kind |-> "present", val |-> 0], [kind |-> "absent", val |-> 0],
                 Word(0) >>

\* the lines a paste is made of: three-part lines, nine-part portal lines,
\* a header line and a two-part line
Lines ==
    LET Field == IntParts \cup { Word(0) }
    IN  { <<s, a, b>> : s \in Subjects, a \in Field, b \in Field }
        \cup { << Word(0), Word(0), s, Word(0), a, Word(0), Word(0), b, Word(0) >> :
                 s \in Subjects, a \in IntParts, b \in IntParts }
        \cup { HeaderLine, << Word(1), [kind |-> "int", val |-> MaxCount] >> }

\* "present" in joined and "absent" in joined
IsHeader(parts) ==
    /\ \E i \in 1..Len(parts) : parts[i].kind = "present"
    /\ \E i \in 1..Len(parts) : parts[i].kind = "absent"

\* the row a line gives, as a one-element sequence, or <<>> when the line is
\* skipped: a header, a part count that is neither 3 nor >= 9, or an int()
\* that raises
ParseLine(parts) ==
    LET n == Len(parts)
        Row(s, p, a) ==
            IF p.kind = "int" /\ a.kind = "int"
            THEN << [Subject |-> s, Present |-> p.val, Absent |-> a.val,
                     Makeup |-> 0, OD |-> 0] >>
            ELSE <<>>
    IN  IF IsHeader(parts) THEN <<>>
        ELSE IF n >= 9
             THEN Row(SubSeq(parts, 3, n - 6), parts[n - 4], parts[n - 1])
        ELSE IF n = 3 THEN Row(<<parts[1]>>, parts[2], parts[3])
        ELSE <<>>

RECURSIVE ParseRows(_)
ParseRows(lines) ==
    IF lines = <<>> THEN <<>>
    ELSE ParseLine(Head(lines)) \o ParseRows(Tail(lines))

---------------------------------------------------------------------------
(* The script *)

RECURSIVE SumOf(_, _)
SumOf(rows, col) ==
    IF rows = <<>> THEN 0
    ELSE (IF col = "EffectivePresent" THEN Head(rows).EffectivePresent
          ELSE Head(rows).Absent) + SumOf(Tail(rows), col)

\* the targets tried in the Target % widget
AppTargets == {TargetMin, 50, TargetDefault, TargetMax}

\* target > overall, with overall = (total_present / total_classes) * 100
\* if total_classes else 0
BelowTarget(tp, tc, T) ==
    IF tc # 0 THEN ~PctAtLeast(tp, tc, T) ELSE T > 0

\* df[df["Subject"] == subject].iloc[0]
FirstRowOf(rows, subject) ==
    rows[CHOOSE i \in 1..Len(rows) :
            /\ rows[i].Subject = subject
            /\ \A j \in 1..(i - 1) : rows[j].Subject # subject]

AppInit ==
    /\ df = <<>>
    /\ pc = "input"
    /\ fn = "none"
    /\ present = 0
    /\ total = 0
    /\ target = TargetDefault
    /\ leave = 0
    /\ ret = "done"
    /\ need = 0
    /\ leaveShown = 0
    /\ outcome = "none"
    /\ prev = NoPrev
    /\ agg = [present |-> 0, absent |-> 0, classes |-> 0]
    /\ shown = "none"

\* df = smart_parse_pasted_data(pasted); a paste with no valid row raises
\* ValueError, which the script catches: df stays None and nothing is shown
Parse ==
    /\ pc = "input"
    /\ \E n \in 1..MaxLines : \E text \in [1..n -> Lines] :
        LET rows == ParseRows(text)
        IN  IF rows = <<>>
            THEN df' = <<>> /\ pc' = "end"
            ELSE df' \in RecalculateAttendance(rows) /\ pc' = "edit"
    /\ UNCHANGED <<fn, present, total, target, leave, ret, need, leaveShown,
                   outcome, prev, agg, shown>>

\* the Makeup / OD number inputs of every row, then recalculate_attendance
EditMakeupOD ==
    /\ pc = "edit"
    /\ \E mk, od \in [1..Len(df) -> 0..MaxExtra] :
        df' \in RecalculateAttendance(
                    [i \in 1..Len(df) |->
                        [df[i] EXCEPT !.Makeup = mk[i], !.OD = od[i]]])
    /\ pc' = "aggregate"
    /\ UNCHANGED <<fn, present, total, target, leave, ret, need, leaveShown,
                   outcome, prev, agg, shown>>

\* total_present, total_absent, total_classes
Aggregate ==
    /\ pc = "aggregate"
    /\ LET tp == SumOf(df, "EffectivePresent")
           ta == SumOf(df, "Absent")
       IN  agg' = [present |-> tp, absent |-> ta, classes |-> tp + ta]
    /\ pc' = "target"
    /\ UNCHANGED <<df, fn, present, total, target, leave, ret, need,
                   leaveShown, outcome, prev, shown>>

\* Target Aggregate Attendance, below the target:
\* need = classes_to_attend(total_present, total_classes, target); st.warning
TargetBelow ==
    /\ pc = "target"
    /\ \E T \in AppTargets :
        /\ BelowTarget(agg.present, agg.classes, T)
        /\ target' = T
        /\ need' = ClassesToAttend(agg.present, agg.classes, T)
    /\ present' = agg.present
    /\ total' = agg.classes
    /\ fn' = "attend"
    /\ outcome' = "value"
    /\ shown' = "warning"
    /\ pc' = "subject"
    /\ UNCHANGED <<df, leave, ret, leaveShown, prev, agg>>

\* Target Aggregate Attendance, at or above the target:
\* leave = classes_can_leave(total_present, total_classes, target); st.success
TargetReached ==
    /\ pc = "target"
    /\ \E T \in AppTargets :
        /\ ~BelowTarget(agg.present, agg.classes, T)
        /\ EnterLeave(agg.present, agg.classes, T, "subject")
    /\ shown' = "success"
    /\ UNCHANGED <<df, need, prev, agg>>

\* Subject Target: the selected subject's row, classes_to_attend on it, and
\* the call of classes_can_leave
SubjectTarget ==
    /\ pc = "subject"
    /\ \E i \in 1..Len(df) :
        LET row == FirstRowOf(df, df[i].Subject)
        IN  /\ need' = ClassesToAttend(row.EffectivePresent, row.Total, target)
            /\ EnterLeave(row.EffectivePresent, row.Total, target, "report")
    /\ UNCHANGED <<df, prev, agg, shown>>

\* st.info, the charts and the PDF
Report ==
    /\ pc = "report"
    /\ pc' = "end"
    /\ UNCHANGED <<df, fn, present, total, target, leave, ret, need,
                   leaveShown, outcome, prev, agg, shown>>

\* an interaction runs the script again from its first line; a run inside
\* the loop of classes_can_leave reaches no Streamlit call that could stop it
Rerun ==
    /\ pc \notin {"input", "leave_loop"}
    /\ df' = <<>>
    /\ pc' = "input"
    /\ fn' = "none"
    /\ present' = 0
    /\ total' = 0
    /\ target' = TargetDefault
    /\ leave' = 0
    /\ ret' = "done"
    /\ need' = 0
    /\ leaveShown' = 0
    /\ outcome' = "none"
    /\ agg' = [present |-> 0, absent |-> 0, classes |-> 0]
    /\ shown' = "none"
    /\ UNCHANGED prev

AppNext ==
    \/ Parse
    \/ EditMakeupOD
    \/ Aggregate
    \/ TargetBelow
    \/ TargetReached
    \/ LeaveLoop
    \/ LeaveRaise
    \/ LeaveReturn
    \/ SubjectTarget
    \/ Report
    \/ Rerun

AppSpec == AppInit /\ [][AppNext]_vars

\* the runs of the script as far as the Attendance Overview table
TableNext ==
    \/ Parse
    \/ EditMakeupOD
    \/ Rerun

TableSpec == AppInit /\ [][TableNext]_vars

---------------------------------------------------------------------------
(* Properties of the two functions *)

AttendDone == pc = "done" /\ fn = "attend"

LeaveDone == pc = "done" /\ fn = "leave"

ValidCounts == total > 0 /\ 0 <= present /\ present <= total

\* C1: for t > 0, 0 <= p <= t and 0 <= T < 100, classes_to_attend returns
\* the smallest n >= 0 with (p + n) / (t + n) >= T / 100: n reaches the
\* target and, when n > 0, n - 1 does not.
C1_SmallestSufficient ==
    (AttendDone /\ ValidCounts /\ 0 <= target /\ target < 100) =>
        /\ outcome = "value"
        /\ need >= 0
        /\ 100 * (present + need) >= target * (total + need)
        /\ need > 0 =>
             100 * (present + need - 1) < target * (total + need - 1)

C1_Witness ==
    /\ AttendDone
    /\ present = 0
    /\ total = MaxTotal
    /\ target = 50
    /\ need = MaxTotal

\* C4: classes_to_attend(p, 0, T) fails with InvalidInput for every p >= 0
\* and every T in 0..100.
C4_ZeroTotalRejected ==
    (AttendDone /\ total = 0 /\ present >= 0 /\ target \in TargetMin..TargetMax)
        => outcome = "InvalidInput"

\* C5: both functions fail with InvalidInput, and return no number, when
\* total < 0, present < 0 or target is outside [0, 100].
C5_InvalidArgumentsRejected ==
    (/\ pc = "done"
     /\ fn # "none"
     /\ (total < 0 \/ present < 0 \/ target \notin TargetMin..TargetMax))
        => outcome = "InvalidInput"

\* C6: with target 100 and t > 0, classes_to_attend returns 0 when p = t,
\* and when p < t its answer is not the ordinary count 0 of a met target.
C6_UnreachableTargetSignalled ==
    (AttendDone /\ ValidCounts /\ target = TargetMax) =>
        IF present = total
        THEN outcome = "value" /\ need = 0
        ELSE ~(outcome = "value" /\ need = 0)

\* C7: for fixed 0 <= p <= t, t > 0, classes_to_attend is monotone in the
\* target: T1 <= T2 in 0..100 gives
\* classes_to_attend(p, t, T1) <= classes_to_attend(p, t, T2).
C7_MonotoneInTarget ==
    (/\ AttendDone
     /\ ValidCounts
     /\ prev # NoPrev
     /\ prev.target \in TargetMin..TargetMax
     /\ target \in TargetMin..TargetMax) =>
        /\ prev.target <= target => prev.need <= need
        /\ target <= prev.target => need <= prev.need

\* C3: classes_can_leave terminates on every input, target 0 included: the
\* search never counts past 100 * present + 1, the bound no search for a
\* target of at least 1 exceeds.
C3_SearchBounded ==
    (/\ pc = "leave_loop"
     /\ present >= 0
     /\ total > 0
     /\ target \in TargetMin..TargetMax) => leave <= 100 * present + 1

\* for a target of at least 1 the bound of C3 does hold
SearchBoundedForPositiveTarget ==
    (pc = "leave_loop" /\ present >= 0 /\ total > 0 /\ target >= 1)
        => leave <= 100 * present + 1

C8_AgreesWithClosedForm ==
    (/\ LeaveDone
     /\ 0 <= present
     /\ present <= total
     /\ 0 < target
     /\ target <= TargetMax) =>
        /\ outcome = "value"
        /\ leaveShown = Max(0, ((present * 100) \div target) - total)

---------------------------------------------------------------------------
(* Properties of the script *)

NonNegativeCounts ==
    \A i \in 1..Len(df) : df[i].Present >= 0 /\ df[i].Absent >= 0

\* C9: after parsing and after any Makeup / OD edits followed by
\* recalculate_attendance, every row has Effective Present = Present +
\* Makeup + OD and Total = Effective Present + Absent; with Present and
\* Absent non-negative, Effective Present <= Total and Attendance% =
\* Effective Present / Total * 100 lies in [0, 100]; Attendance% is 0 when
\* Total is 0.
C9_RowsConsistent ==
    \A i \in 1..Len(df) :
        LET r == df[i]
            pct == r.AttendancePct
        IN  /\ r.Makeup >= 0 /\ r.OD >= 0
            /\ r.EffectivePresent = r.Present + r.Makeup + r.OD
            /\ r.Total = r.EffectivePresent + r.Absent
            /\ r.Total = 0 => pct.num = 0
            /\ r.Total # 0 => pct.num * r.Total = 100 * r.EffectivePresent * pct.den
            /\ (r.Present >= 0 /\ r.Absent >= 0) =>
                 /\ r.EffectivePresent <= r.Total
                 /\ 0 <= pct.num
                 /\ pct.num <= 100 * pct.den

C9_Witness ==
    /\ pc = "aggregate"
    /\ Len(df) = MaxLines
    /\ \E i \in 1..Len(df) :
        /\ df[i].Makeup = MaxExtra
        /\ df[i].OD = MaxExtra
        /\ df[i].Absent = MaxCount
        /\ df[i].Total = df[i].Present + MaxCount + 2 * MaxExtra

\* C10: with non-negative counts and a target in 0..100, when the aggregate
\* section takes the below-target branch and shows "Attend need more
\* classes", need is at least 1 and
\* (total_present + need) / (total_classes + need) * 100 >= target.
C10_NeedReachesTarget ==
    (pc = "subject" /\ shown = "warning" /\ NonNegativeCounts) =>
        /\ need >= 1
        /\ 100 * (agg.present + need) >= target * (agg.classes + need)

====
